---- MODULE Spec2Model ----
(***************************************************************************)
(* Product Management API (FastAPI + SQLAlchemy over SQLite).              *)
(*                                                                         *)
(* State: the two tables (users, products), and for every request slot    *)
(* the request in flight (req) and the last response sent (resp).         *)
(* A request is handled in steps, one per round trip to the database that *)
(* another request can interleave with: the handler's reads and checks    *)
(* (taken when the request arrives), the SKU generator's probes, and the  *)
(* commit. A slot keeps its last request, at pc "done", with its response *)
(* until the next request arrives on it.                                  *)
(*                                                                         *)
(* Strings whose contents the code inspects (product names, SKUs) are     *)
(* sequences of one-character strings; e-mails, usernames and messages    *)
(* are only compared for equality and are TLA+ strings.                   *)
(***************************************************************************)
EXTENDS Integers, Sequences, FiniteSets, TLC

VARIABLES users, products, req, resp

vars == <<users, products, req, resp>>

----------------------------------------------------------------------------
(* Bounds of the model *)

\* largest id a row of the users table is given
MaxUsers == 4
\* largest id a row of the products table is given
MaxProducts == 2
\* stands for the 9999 of crud.py:189, the last counter the SKU generator tries
CounterLimit == 2
\* stands for the 100 of crud.py:127 and crud.py:164, the default of limit
DefaultLimit == 2
\* largest skip and largest total the pagination arithmetic is applied to
MaxSkip == 20
MaxTotal == 25

\* request slots: two requests may be in flight at once
Procs == {"r1", "r2"}

----------------------------------------------------------------------------
(* Characters and strings *)

LowerChars == {"a", "b", "d", "o", "p", "r", "x"}
UpperChars == {"A", "B", "D", "O", "P", "R", "X"}
DigitChars == {"0", "1", "2", "3", "4", "5", "6", "7", "8", "9"}

\* str.upper() on one character
UpperChar(c) ==
  CASE c = "a" -> "A"
    [] c = "b" -> "B"
    [] c = "d" -> "D"
    [] c = "o" -> "O"
    [] c = "p" -> "P"
    [] c = "r" -> "R"
    [] c = "x" -> "X"
    [] OTHER -> c

\* str.upper()
Upper(s) == [i \in 1..Len(s) |-> UpperChar(s[i])]

\* str.lower() on one character
LowerChar(c) ==
  CASE c = "A" -> "a"
    [] c = "B" -> "b"
    [] c = "D" -> "d"
    [] c = "O" -> "o"
    [] c = "P" -> "p"
    [] c = "R" -> "r"
    [] c = "X" -> "x"
    [] OTHER -> c

\* str.lower(), and lower() of SQL
Lower(s) == [i \in 1..Len(s) |-> LowerChar(s[i])]

\* the characters re.sub(r'[^A-Za-z0-9]', '', s) keeps
IsAlnum(c) == c \in LowerChars \cup UpperChars \cup DigitChars

\* re.sub(r'[^A-Za-z0-9]', '', s)
StripNonAlnum(s) == SelectSeq(s, IsAlnum)

\* s[:n]
Prefix(s, n) == IF Len(s) <= n THEN s ELSE SubSeq(s, 1, n)

CleanLen == 8

\* clean_name of generate_unique_sku
CleanName(base_name) ==
  LET clean == Prefix(Upper(StripNonAlnum(base_name)), CleanLen)
  IN  IF clean = <<>> THEN <<"P", "R", "O", "D">> ELSE clean

DigitOf(d) == <<"0", "1", "2", "3", "4", "5", "6", "7", "8", "9">>[d + 1]

\* f"{counter:04d}" for 0 <= counter <= 9999
Fmt04(counter) ==
  << DigitOf((counter \div 1000) % 10), DigitOf((counter \div 100) % 10),
     DigitOf((counter \div 10) % 10), DigitOf(counter % 10) >>

CounterSkuFirst(clean, counter) == clean \o <<"-">> \o Fmt04(1)

\* f"{clean_name}-{counter:04d}"
CounterSku(clean, counter) == clean \o <<"-">> \o Fmt04(counter)

\* str(uuid.uuid4()).replace('-', '')[:8].upper(): the values a draw can give
UuidParts ==
  { <<"A", "0", "0", "0", "0", "0", "0", "1">>,
    <<"B", "0", "0", "0", "0", "0", "0", "2">> }

\* f"{clean_name}-{uuid_part}"
UuidSku(clean, part) == clean \o <<"-">> \o part

\* SQL: s LIKE pattern, where % stands for any characters and _ for one
RECURSIVE Like(_, _)
Like(s, pattern) ==
  IF pattern = <<>> THEN s = <<>>
  ELSE IF Head(pattern) = "%"
    THEN Like(s, Tail(pattern)) \/ (s # <<>> /\ Like(Tail(s), pattern))
  ELSE /\ s # <<>>
       /\ Head(pattern) = "_" \/ Head(pattern) = Head(s)
       /\ Like(Tail(s), Tail(pattern))

\* column.ilike(f"%{text}%"): lower(column) LIKE lower('%text%'), never true of
\* a NULL column (<<>>)
ILike(column, text) ==
  column # <<>> /\ Like(Lower(column), Lower(<<"%">> \o text \o <<"%">>))

\* str.split(): the maximal runs of characters other than the blank
RECURSIVE Split(_, _)
Split(s, word) ==
  IF s = <<>> THEN (IF word = <<>> THEN <<>> ELSE <<word>>)
  ELSE IF Head(s) = " "
    THEN (IF word = <<>> THEN <<>> ELSE <<word>>) \o Split(Tail(s), <<>>)
  ELSE Split(Tail(s), Append(word, Head(s)))

----------------------------------------------------------------------------
(* Tables *)

SetMax(S) == CHOOSE m \in S : \A x \in S : x <= m

\* the id SQLite gives a new row of an INTEGER PRIMARY KEY table: max(rowid) + 1
NextId(table) == IF table = {} THEN 1 ELSE SetMax({r.id : r \in table}) + 1

get_user(user_id) == {u \in users : u.id = user_id}
get_user_by_emailNone(email) == {}

get_user_by_email(email) == {u \in users : u.email = email}
get_user_by_username(username) == {u \in users : u.username = username}
get_productAny(product_id) == products

get_product(product_id) == {pr \in products : pr.id = product_id}
get_product_by_skuNone(sku) == {}

\* Product.sku == sku.upper()
get_product_by_sku(sku) == {pr \in products : pr.sku = Upper(sku)}

\* nullable=False of users.email and users.username; "null" is None
UsersNotNull(table) == \A u \in table : u.email # "null" /\ u.username # "null"

UsersUniqueOff(table) == TRUE

\* unique=True of users.email and users.username
UsersUnique(table) ==
  \A u, v \in table : u.id # v.id => u.email # v.email /\ u.username # v.username

\* None in a numeric field of a request body, NULL in a numeric column
NullNumber == 0 - 1000

\* nullable=False of products.price and products.stock_quantity, and the two
\* CheckConstraints of the table: price >= 0, stock_quantity >= 0
ProductsChecked(table) ==
  \A pr \in table :
    /\ pr.price # NullNumber /\ pr.stock_quantity # NullNumber
    /\ pr.price >= 0 /\ pr.stock_quantity >= 0

ProductsUniqueOff(table) == TRUE

\* unique=True of products.sku
ProductsUnique(table) ==
  \A x, y \in table : x.id # y.id => x.sku # y.sku

----------------------------------------------------------------------------
(* Responses *)

NoResp == [status |-> 0, detail |-> "", exc |-> ""]

\* http_exception_handler: an HTTPException is answered with its own status
HttpError(status, detail) == [status |-> status, detail |-> detail, exc |-> "HTTPException"]

\* general_exception_handler: any other exception is answered 500
ServerError(exc) == [status |-> 500, detail |-> "Internal server error", exc |-> exc]

\* validation_exception_handler: a body that fails its schema is answered 422
ValidationError == [status |-> 422, detail |-> "Validation error", exc |-> "RequestValidationError"]

Ok(status) == [status |-> status, detail |-> "", exc |-> ""]

\* a successful response with the JSON body the handler returns
OkBody(status, body) == [status |-> status, detail |-> "", exc |-> "", body |-> body]

----------------------------------------------------------------------------
(* Requests *)

NoData == [x \in {} |-> x]

Idle ==
  [op |-> "idle", pc |-> "idle", tok |-> "", target |-> 0, data |-> NoData,
   uid |-> 0, super |-> FALSE, sku |-> <<>>, clean |-> <<>>, counter |-> 0]

\* a request as it arrives
Request(op, tok, target, data) ==
  [Idle EXCEPT !.op = op, !.pc = "new", !.tok = tok, !.target = target, !.data = data]

\* a slot is free for the next request
Free(p) == req[p].pc \in {"idle", "done"}

\* the request r of slot p ends with this response
Finish(p, r, response) ==
  /\ req' = [req EXCEPT ![p] = [r EXCEPT !.pc = "done"]]
  /\ resp' = [resp EXCEPT ![p] = response]

\* the request of slot p goes on as r
Advance(p, r) ==
  /\ req' = [req EXCEPT ![p] = r]
  /\ resp' = [resp EXCEPT ![p] = NoResp]

----------------------------------------------------------------------------
(* Passwords: get_password_hash and verify_password of app.auth *)

\* a hash is opaque: it is never equal to a password, and all that can be
\* done with it is to verify a password against it
get_password_hash(password) == [hash_of |-> password]

verify_password(plain_password, hashed_password) == hashed_password.hash_of = plain_password

----------------------------------------------------------------------------
(* The dependencies of app.auth that the handlers declare *)

\* get_current_active_user: the bearer token's subject is a username; the
\* account it names must be stored and active
ActiveUserError(tok) ==
  LET found == get_user_by_username(tok)
  IN  IF found = {} THEN HttpError(401, "Could not validate credentials")
      ELSE IF \E u \in found : u.is_active # "true" THEN HttpError(400, "Inactive user")
      ELSE NoResp

SuperuserErrorOff(tok) == ActiveUserError(tok)

\* get_current_superuser: an active user who is a superuser
SuperuserError(tok) ==
  IF ActiveUserError(tok) # NoResp THEN ActiveUserError(tok)
  ELSE IF \E u \in get_user_by_username(tok) : ~u.is_superuser
       THEN HttpError(403, "Not enough permissions")
  ELSE NoResp

\* current_user, once the dependency has let the request in
CurrentUser(tok) == CHOOSE u \in get_user_by_username(tok) : TRUE

\* the request with the id and the superuser flag of the current_user object
\* that the dependency loaded, if the token names a stored user
WithUser(r) ==
  IF get_user_by_username(r.tok) = {} THEN r
  ELSE [r EXCEPT !.uid = CurrentUser(r.tok).id, !.super = CurrentUser(r.tok).is_superuser]

----------------------------------------------------------------------------
(* POST /auth/register: create_user *)

\* the two look-ups before the insert
RegisterCheck(p, r) ==
  /\ Free(p) /\ r.op = "register"
  /\ IF get_user_by_email(r.data.email) # {}
       THEN Finish(p, r, HttpError(400, "Email already registered"))
     ELSE IF get_user_by_username(r.data.username) # {}
       THEN Finish(p, r, HttpError(400, "Username already taken"))
     ELSE Advance(p, [r EXCEPT !.pc = "commit"])
  /\ UNCHANGED <<users, products>>

NewUserRaw(data) ==
  [id |-> NextId(users), email |-> data.email, username |-> data.username,
   hashed_password |-> get_password_hash(data.password),
   is_active |-> "true", is_superuser |-> "is_superuser" \in DOMAIN data]

\* the row create_user adds; is_active and is_superuser take the column defaults
NewUser(data) ==
  [id |-> NextId(users), email |-> data.email, username |-> data.username,
   hashed_password |-> get_password_hash(data.password),
   is_active |-> "true", is_superuser |-> FALSE]

\* db.add, db.commit
RegisterCommit(p) ==
  LET r == req[p]
      row == NewUser(r.data)
  IN  /\ r.op = "register" /\ r.pc = "commit"
      /\ IF UsersUnique(users \cup {row})
           THEN /\ row.id <= MaxUsers
                /\ users' = users \cup {row}
                /\ Finish(p, r, Ok(201))
           ELSE /\ users' = users
                /\ Finish(p, r, ServerError("IntegrityError"))
      /\ UNCHANGED products

----------------------------------------------------------------------------
(* POST /auth/login and POST /auth/login-alt *)

\* authenticate_user of app.auth: the user with this username, if the
\* password verifies against the stored hash
authenticate_user(username, password) ==
  {u \in get_user_by_username(username) : verify_password(password, u.hashed_password)}

\* create_access_token of app.auth: a signed token that carries its subject
create_access_token(sub) == [sub |-> sub]

\* by username first, then by e-mail
LoginUser(identifier, password) ==
  IF authenticate_user(identifier, password) # {}
    THEN authenticate_user(identifier, password)
    ELSE UNION {authenticate_user(e.username, password) : e \in get_user_by_email(identifier)}

\* login: not bool(user.is_active)
LoginInactive(user) == user.is_active # "true"

LoginAltInactiveOff(user) == FALSE

\* login_alt: user.is_active is False
LoginAltInactive(user) == user.is_active = "false"

\* the response of both endpoints, given the inactive test of each
LoginResponse(user, inactive) ==
  IF user = {} THEN HttpError(401, "Incorrect username/email or password")
  ELSE IF inactive THEN HttpError(400, "Inactive user")
  ELSE OkBody(200, [access_token |-> create_access_token((CHOOSE u \in user : TRUE).username),
                    token_type |-> "bearer"])

\* the request with the id of the user object the login handler holds
WithLogin(r, user) ==
  IF user = {} THEN r ELSE [r EXCEPT !.uid = (CHOOSE u \in user : TRUE).id]

Login(p, r) ==
  LET user == LoginUser(r.data.username, r.data.password)
  IN  /\ Free(p) /\ r.op = "login"
      /\ Finish(p, WithLogin(r, user), LoginResponse(user, \E u \in user : LoginInactive(u)))
      /\ UNCHANGED <<users, products>>

LoginAlt(p, r) ==
  LET user == LoginUser(r.data.username, r.data.password)
  IN  /\ Free(p) /\ r.op = "login_alt"
      /\ Finish(p, WithLogin(r, user),
                LoginResponse(user, \E u \in user : LoginAltInactive(u)))
      /\ UNCHANGED <<users, products>>

----------------------------------------------------------------------------
(* PUT /users/{user_id}: update_existing_user, update_user *)

\* for field, value in update_data.items(): setattr(row, field, value)
SetAttrs(row, update_data) ==
  [f \in DOMAIN row |-> IF f \in DOMAIN update_data THEN update_data[f] ELSE row[f]]

UpdateUserCheck(p, r) ==
  LET r1 == WithUser(r)
  IN  /\ Free(p) /\ r.op = "update_user"
      /\ IF SuperuserError(r.tok) # NoResp
           THEN Finish(p, r1, SuperuserError(r.tok))
         ELSE IF get_user(r.target) = {}
           THEN Finish(p, r1, HttpError(404, "User not found"))
         ELSE IF /\ "email" \in DOMAIN r.data
                 /\ \E u \in get_user_by_email(r.data.email) : u.id # r.target
           THEN Finish(p, r1, HttpError(400, "Email already registered"))
         ELSE IF /\ "username" \in DOMAIN r.data
                 /\ \E u \in get_user_by_username(r.data.username) : u.id # r.target
           THEN Finish(p, r1, HttpError(400, "Username already taken"))
         ELSE Advance(p, [r1 EXCEPT !.pc = "commit"])
      /\ UNCHANGED <<users, products>>

UserResponseNotFound(status, old, update_data) == HttpError(404, "User not found")

\* response_model=User: is_active of the returned row must be a bool, or the
\* response fails validation after the commit
UserResponse(status, old, update_data) ==
  IF \E u \in old : SetAttrs(u, update_data).is_active = "null"
    THEN ServerError("ResponseValidationError")
    ELSE Ok(status)

\* db.commit of the changed row: the UPDATE finds the row or the flush fails
UpdateUserCommit(p) ==
  LET r == req[p]
      old == get_user(r.target)
      table == (users \ old) \cup {SetAttrs(u, r.data) : u \in old}
  IN  /\ r.op = "update_user" /\ r.pc = "commit"
      /\ IF old = {}
           THEN /\ users' = users
                /\ Finish(p, r, ServerError("StaleDataError"))
         ELSE IF UsersUnique(table) /\ UsersNotNull(table)
           THEN /\ users' = table
                /\ Finish(p, r, UserResponse(200, get_user(r.target), r.data))
           ELSE /\ users' = users
                /\ Finish(p, r, ServerError("IntegrityError"))
      /\ UNCHANGED products

----------------------------------------------------------------------------
(* DELETE /users/{user_id}: delete_existing_user, delete_user *)

IsSelfOff(user_id, cu) == FALSE

\* if user_id == current_user.id
IsSelf(user_id, cu) == user_id = cu.id

DeleteUserCheck(p, r) ==
  LET r1 == WithUser(r)
  IN  /\ Free(p) /\ r.op = "delete_user"
      /\ IF SuperuserError(r.tok) # NoResp
           THEN Finish(p, r1, SuperuserError(r.tok))
         ELSE IF IsSelf(r.target, CurrentUser(r.tok))
           THEN Finish(p, r1, HttpError(400, "Cannot delete your own account"))
         ELSE IF get_user(r.target) = {}
           THEN Finish(p, r1, HttpError(404, "User not found"))
         ELSE Advance(p, [r1 EXCEPT !.pc = "commit"])
      /\ UNCHANGED <<users, products>>

\* db.delete, db.commit: the flush first detaches the user's products by
\* setting their owner_id to NULL, which products.owner_id (nullable=False)
\* refuses
DeleteUserCommit(p) ==
  LET r == req[p]
      owned == {pr \in products : pr.owner_id = r.target}
  IN  /\ r.op = "delete_user" /\ r.pc = "commit"
      /\ IF owned # {}
           THEN /\ users' = users
                /\ Finish(p, r, ServerError("IntegrityError"))
           ELSE /\ users' = users \ get_user(r.target)
                /\ Finish(p, r, Ok(200))
      /\ UNCHANGED products

----------------------------------------------------------------------------
(* POST /products: create_new_product, create_product, generate_unique_sku *)

\* ProductCreate: validate_sku upper-cases a given sku; <<>> is no sku (None)
ProductCreate(body) == [body EXCEPT !.sku = Upper(body.sku)]

\* ProductCreate: name min_length=1, price gt=0, stock_quantity ge=0, all three
\* required
ProductCreateValid(body) ==
  /\ Len(body.name) >= 1
  /\ body.price # NullNumber /\ body.price > 0
  /\ body.stock_quantity # NullNumber /\ body.stock_quantity >= 0

CreateProductCheck(p, r) ==
  LET product_data == ProductCreate(r.data)
      r1 == [WithUser(r) EXCEPT !.data = product_data]
  IN  /\ Free(p) /\ r.op = "create_product"
      /\ IF ActiveUserError(r.tok) # NoResp
           THEN Finish(p, r1, ActiveUserError(r.tok))
         ELSE IF ~ProductCreateValid(r.data)
           THEN Finish(p, r1, ValidationError)
         ELSE IF product_data.sku = <<>>
           THEN Advance(p, [r1 EXCEPT !.pc = "gen", !.counter = 1,
                                      !.clean = CleanName(product_data.name)])
         ELSE IF get_product_by_sku(product_data.sku) # {}
           THEN Finish(p, r1, HttpError(400, "SKU already exists"))
         ELSE Advance(p, [r1 EXCEPT !.pc = "commit", !.sku = product_data.sku])
      /\ UNCHANGED <<users, products>>

\* one turn of the counter loop of generate_unique_sku
GenerateCounter(p) ==
  LET r == req[p]
      sku == CounterSku(r.clean, r.counter)
  IN  /\ r.op = "create_product" /\ r.pc = "gen"
      /\ IF get_product_by_sku(sku) = {}
           THEN Advance(p, [r EXCEPT !.pc = "commit", !.sku = sku])
         ELSE IF r.counter + 1 > CounterLimit
           THEN Advance(p, [r EXCEPT !.pc = "uuid", !.counter = r.counter + 1])
         ELSE Advance(p, [r EXCEPT !.counter = r.counter + 1])
      /\ UNCHANGED <<users, products>>

\* one turn of the uuid loop of generate_unique_sku
GenerateUuid(p) ==
  LET r == req[p]
  IN  /\ r.op = "create_product" /\ r.pc = "uuid"
      /\ \E uuid_part \in UuidParts :
           LET sku == UuidSku(r.clean, uuid_part)
           IN  IF get_product_by_sku(sku) = {}
                 THEN Advance(p, [r EXCEPT !.pc = "commit", !.sku = sku])
                 ELSE Advance(p, r)
      /\ UNCHANGED <<users, products>>

NewProductOfFirst(r) ==
  [id |-> NextId(products), name |-> r.data.name, description |-> r.data.description,
   price |-> r.data.price, stock_quantity |-> r.data.stock_quantity,
   category |-> r.data.category, sku |-> r.sku, is_active |-> "true",
   owner_id |-> 1]

\* Product(**product_data, owner_id=owner_id); is_active takes the column default
NewProduct(r) ==
  [id |-> NextId(products), name |-> r.data.name, description |-> r.data.description,
   price |-> r.data.price, stock_quantity |-> r.data.stock_quantity,
   category |-> r.data.category, sku |-> r.sku, is_active |-> "true",
   owner_id |-> r.uid]

\* db.add, db.commit. ForeignKey("users.id") of products.owner_id is enforced
\* only on a connection that turns foreign keys on, which SQLite does not do
\* by itself: a row whose owner is no longer stored is either inserted or
\* refused
CreateProductCommit(p) ==
  LET r == req[p]
      row == NewProduct(r)
  IN  /\ r.op = "create_product" /\ r.pc = "commit"
      /\ IF ProductsUnique(products \cup {row}) /\ ProductsChecked({row})
           THEN \/ /\ row.id <= MaxProducts
                   /\ products' = products \cup {row}
                   /\ Finish(p, r, Ok(201))
                \/ /\ get_user(row.owner_id) = {}
                   /\ products' = products
                   /\ Finish(p, r, ServerError("IntegrityError"))
           ELSE /\ products' = products
                /\ Finish(p, r, ServerError("IntegrityError"))
      /\ UNCHANGED users

----------------------------------------------------------------------------
(* PUT /products/{product_id}: update_existing_product, update_product *)

ProductUpdateFields ==
  {"name", "description", "price", "stock_quantity", "category", "is_active"}

\* ProductUpdate(...).dict(exclude_unset=True): the schema has no sku field,
\* so a sku in the body is not part of the parsed payload
ProductUpdate(body) == [f \in DOMAIN body \cap ProductUpdateFields |-> body[f]]

\* if "sku" in update_data: del update_data["sku"]
DropSku(update_data) == [f \in DOMAIN update_data \ {"sku"} |-> update_data[f]]

UpdatedProductRaw(row, body) == SetAttrs(row, body)

\* the row after update_product's setattr loop
UpdatedProduct(row, body) == SetAttrs(row, DropSku(ProductUpdate(body)))

CannotModifyOff(row, r) == FALSE

\* db_product.owner_id != current_user.id and not current_user.is_superuser
CannotModify(row, r) == row.owner_id # r.uid /\ ~r.super

ProductUpdateValidOff(body) == TRUE

\* ProductUpdate: price Optional with gt=0, stock_quantity Optional with ge=0;
\* None passes both
ProductUpdateValid(body) ==
  /\ "price" \in DOMAIN body => body.price = NullNumber \/ body.price > 0
  /\ "stock_quantity" \in DOMAIN body
       => body.stock_quantity = NullNumber \/ body.stock_quantity >= 0

UpdateProductCheck(p, r) ==
  LET r1 == WithUser(r)
  IN  /\ Free(p) /\ r.op = "update_product"
      /\ IF ActiveUserError(r.tok) # NoResp
           THEN Finish(p, r1, ActiveUserError(r.tok))
         ELSE IF ~ProductUpdateValid(r.data)
           THEN Finish(p, r1, ValidationError)
         ELSE IF get_product(r.target) = {}
           THEN Finish(p, r1, HttpError(404, "Product not found"))
         ELSE IF \E row \in get_product(r.target) : CannotModify(row, r1)
           THEN Finish(p, r1, HttpError(403, "Not enough permissions to update this product"))
         ELSE Advance(p, [r1 EXCEPT !.pc = "commit"])
      /\ UNCHANGED <<users, products>>

\* db.commit of the changed row: the UPDATE finds the row or the flush fails
UpdateProductCommit(p) ==
  LET r == req[p]
      old == get_product(r.target)
  IN  /\ r.op = "update_product" /\ r.pc = "commit"
      /\ IF old = {}
           THEN /\ products' = products
                /\ Finish(p, r, ServerError("StaleDataError"))
         ELSE IF ProductsChecked({UpdatedProduct(row, r.data) : row \in old})
           THEN /\ products' = (products \ old) \cup {UpdatedProduct(row, r.data) : row \in old}
                /\ Finish(p, r, Ok(200))
           ELSE /\ products' = products
                /\ Finish(p, r, ServerError("IntegrityError"))
      /\ UNCHANGED users

----------------------------------------------------------------------------
(* DELETE /products/{product_id}: delete_existing_product, delete_product *)

DeleteProductCheck(p, r) ==
  LET r1 == WithUser(r)
  IN  /\ Free(p) /\ r.op = "delete_product"
      /\ IF ActiveUserError(r.tok) # NoResp
           THEN Finish(p, r1, ActiveUserError(r.tok))
         ELSE IF get_product(r.target) = {}
           THEN Finish(p, r1, HttpError(404, "Product not found"))
         ELSE IF \E row \in get_product(r.target) : CannotModify(row, r1)
           THEN Finish(p, r1, HttpError(403, "Not enough permissions to delete this product"))
         ELSE Advance(p, [r1 EXCEPT !.pc = "commit"])
      /\ UNCHANGED <<users, products>>

\* db.delete, db.commit
DeleteProductCommit(p) ==
  LET r == req[p]
  IN  /\ r.op = "delete_product" /\ r.pc = "commit"
      /\ products' = products \ get_product(r.target)
      /\ Finish(p, r, Ok(200))
      /\ UNCHANGED users

----------------------------------------------------------------------------
(* GET /products and GET /products/my-products: get_products,
   get_products_by_owner *)

\* the filters get_products applies; q holds the query parameters that were
\* given, and an empty category or search text is no filter
ProductMatches(pr, q) ==
  /\ q.active_only => pr.is_active = "true"
  /\ "category" \in DOMAIN q /\ q.category # <<>> => pr.category = q.category
  /\ "search" \in DOMAIN q /\ q.search # <<>>
       => \/ ILike(pr.name, q.search)
          \/ ILike(pr.description, q.search)
          \/ ILike(pr.sku, q.search)
  /\ "min_price" \in DOMAIN q => pr.price >= q.min_price
  /\ "max_price" \in DOMAIN q => pr.price <= q.max_price

\* the orders in which a query without ORDER BY may return these rows
Orders(S) == {f \in [1..Cardinality(S) -> S] : \A x \in S : \E i \in DOMAIN f : f[i] = x}

\* query.offset(skip).limit(limit).all()
OffsetLimit(rows, skip, limit) ==
  SubSeq(rows, skip + 1, IF skip + limit < Len(rows) THEN skip + limit ELSE Len(rows))

\* len() of the second query, which is sent without skip and limit
TotalProducts(rows) == Len(OffsetLimit(rows, 0, DefaultLimit))

\* page = (skip // limit) + 1
Page(skip, limit) == (skip \div limit) + 1

PagesFloor(total, limit) == total \div limit

\* pages = (total_products + limit - 1) // limit
Pages(total, limit) == (total + limit - 1) \div limit

PaginatedResponse(items, total, skip, limit) ==
  [items |-> items, total |-> total, page |-> Page(skip, limit), size |-> limit,
   pages |-> Pages(total, limit)]

\* response_model: is_active of every item and of its owner must be a bool
ResponseValid(items) ==
  \A i \in DOMAIN items :
    /\ items[i].is_active \in {"true", "false"}
    /\ \E u \in users : u.id = items[i].owner_id /\ u.is_active \in {"true", "false"}

ListResponse(rows, skip, limit) ==
  IF ResponseValid(OffsetLimit(rows, skip, limit))
    THEN OkBody(200, PaginatedResponse(OffsetLimit(rows, skip, limit),
                                       TotalProducts(rows), skip, limit))
    ELSE ServerError("ResponseValidationError")

ReadProducts(p) ==
  LET r == req[p]
  IN  /\ r.pc = "new" /\ r.op = "read_products"
      /\ IF ActiveUserError(r.tok) # NoResp
           THEN Finish(p, WithUser(r), ActiveUserError(r.tok))
           ELSE \E rows \in Orders({pr \in products : ProductMatches(pr, r.data)}) :
                  Finish(p, WithUser(r), ListResponse(rows, r.data.skip, r.data.limit))
      /\ UNCHANGED <<users, products>>

get_products_by_owner(owner_id) == {pr \in products : pr.owner_id = owner_id}

ReadMyProducts(p) ==
  LET r == req[p]
  IN  /\ r.pc = "new" /\ r.op = "read_my_products"
      /\ IF ActiveUserError(r.tok) # NoResp
           THEN Finish(p, WithUser(r), ActiveUserError(r.tok))
           ELSE \E rows \in Orders(get_products_by_owner(CurrentUser(r.tok).id)) :
                  Finish(p, WithUser(r), ListResponse(rows, r.data.skip, r.data.limit))
      /\ UNCHANGED <<users, products>>

\* lines 79-88 of read_products on their own, for a total of any size
Paginate(p) ==
  LET r == req[p]
  IN  /\ r.pc = "new" /\ r.op = "paginate"
      /\ Finish(p, r, OkBody(200, PaginatedResponse(<<>>, r.data.total, r.data.skip,
                                                    r.data.limit)))
      /\ UNCHANGED <<users, products>>

----------------------------------------------------------------------------
(* GET /products/statistics/overview and /admin: get_product_statistics *)

StatsSetAll(table, owner_id) == table

\* if owner_id: query.filter(Product.owner_id == owner_id); 0 is no owner_id
StatsSet(table, owner_id) ==
  IF owner_id # 0 THEN {pr \in table : pr.owner_id = owner_id} ELSE table

\* func.sum(Product.price * Product.stock_quantity) ... or 0
RECURSIVE SumValue(_)
SumValue(S) ==
  IF S = {} THEN 0
  ELSE LET x == CHOOSE x \in S : TRUE
       IN  x.price * x.stock_quantity + SumValue(S \ {x})

get_product_statistics(table, owner_id) ==
  LET rows == StatsSet(table, owner_id)
      total_products == Cardinality(rows)
      active_products == Cardinality({pr \in rows : pr.is_active = "true"})
  IN  [total_products |-> total_products, active_products |-> active_products,
       inactive_products |-> total_products - active_products,
       total_value |-> SumValue(rows)]

OverviewStatistics(p) ==
  LET r == req[p]
  IN  /\ r.pc = "new" /\ r.op = "statistics_overview"
      /\ IF ActiveUserError(r.tok) # NoResp
           THEN Finish(p, WithUser(r), ActiveUserError(r.tok))
           ELSE Finish(p, WithUser(r),
                       OkBody(200, get_product_statistics(products, CurrentUser(r.tok).id)))
      /\ UNCHANGED <<users, products>>

AdminStatistics(p) ==
  LET r == req[p]
  IN  /\ r.pc = "new" /\ r.op = "statistics_admin"
      /\ IF SuperuserError(r.tok) # NoResp
           THEN Finish(p, WithUser(r), SuperuserError(r.tok))
           ELSE Finish(p, WithUser(r), OkBody(200, get_product_statistics(products, 0)))
      /\ UNCHANGED <<users, products>>

----------------------------------------------------------------------------
(* search.py: full_text_search *)

\* re.sub(r'\s+', ' ', query.lower().strip()).split()
Tokens(query) == Split(Lower(query), <<>>)

\* and_(or_(one condition per token of length >= 2), Product.is_active == True)
SearchMatches(pr, tokens) ==
  /\ \E i \in DOMAIN tokens :
       /\ Len(tokens[i]) >= 2
       /\ \/ ILike(pr.name, tokens[i])
          \/ ILike(pr.description, tokens[i])
          \/ ILike(pr.category, tokens[i])
          \/ ILike(pr.sku, tokens[i])
  /\ pr.is_active = "true"

\* a call of full_text_search(db, query, limit); the early returns give []
FullTextSearch(p) ==
  LET r == req[p]
      tokens == Tokens(r.data.query)
  IN  /\ r.pc = "new" /\ r.op = "full_text_search"
      /\ IF \A i \in DOMAIN tokens : Len(tokens[i]) < 2
           THEN Finish(p, r, OkBody(200, [items |-> <<>>]))
           ELSE \E rows \in Orders({pr \in products : SearchMatches(pr, tokens)}) :
                  Finish(p, r, OkBody(200, [items |-> OffsetLimit(rows, 0, r.data.limit)]))
      /\ UNCHANGED <<users, products>>

----------------------------------------------------------------------------
(* GET /products/{product_id} and GET /products/categories/list *)

ReadProduct(p) ==
  LET r == req[p]
      product == get_product(r.target)
  IN  /\ r.pc = "new" /\ r.op = "read_product"
      /\ IF ActiveUserError(r.tok) # NoResp
           THEN Finish(p, WithUser(r), ActiveUserError(r.tok))
         ELSE IF product = {}
           THEN Finish(p, WithUser(r), HttpError(404, "Product not found"))
         ELSE IF ResponseValid(<<CHOOSE pr \in product : TRUE>>)
           THEN Finish(p, WithUser(r), OkBody(200, CHOOSE pr \in product : TRUE))
         ELSE Finish(p, WithUser(r), ServerError("ResponseValidationError"))
      /\ UNCHANGED <<users, products>>

\* db.query(distinct(Product.category)).filter(Product.category.isnot(None))
GetCategories(p) ==
  LET r == req[p]
  IN  /\ r.pc = "new" /\ r.op = "get_categories"
      /\ IF ActiveUserError(r.tok) # NoResp
           THEN Finish(p, WithUser(r), ActiveUserError(r.tok))
           ELSE \E rows \in Orders({pr.category : pr \in {x \in products : x.category # <<>>}}) :
                  Finish(p, WithUser(r), OkBody(200, [categories |-> rows]))
      /\ UNCHANGED <<users, products>>

\* a request of the product queries arrives on a free slot
Receive(p, r) ==
  /\ Free(p) /\ r.pc = "new"
  /\ r.op \in {"read_products", "read_my_products", "read_product", "get_categories",
               "statistics_overview", "statistics_admin", "full_text_search"}
  /\ Advance(p, r)
  /\ UNCHANGED <<users, products>>

----------------------------------------------------------------------------
(* GET /users and GET /users/{user_id}: read_users, read_user *)

\* the fields of a row that response_model=User returns
UserOut(u) ==
  [id |-> u.id, email |-> u.email, username |-> u.username,
   is_active |-> u.is_active, is_superuser |-> u.is_superuser]

\* response_model=User and List[User]: is_active of every row must be a bool
UsersResponse(body, rows) ==
  IF \E u \in rows : u.is_active = "null"
    THEN ServerError("ResponseValidationError")
    ELSE OkBody(200, body)

\* get_users: db.query(User).offset(skip).limit(limit).all()
ReadUsers(p, r) ==
  LET r1 == WithUser(r)
  IN  /\ Free(p) /\ r.op = "read_users"
      /\ IF SuperuserError(r.tok) # NoResp
           THEN Finish(p, r1, SuperuserError(r.tok))
           ELSE \E rows \in Orders(users) :
                  LET page == OffsetLimit(rows, r.data.skip, r.data.limit)
                  IN  Finish(p, r1, UsersResponse([i \in DOMAIN page |-> UserOut(page[i])],
                                                  {page[i] : i \in DOMAIN page}))
      /\ UNCHANGED <<users, products>>

ReadUser(p, r) ==
  LET r1 == WithUser(r)
  IN  /\ Free(p) /\ r.op = "read_user"
      /\ IF SuperuserError(r.tok) # NoResp
           THEN Finish(p, r1, SuperuserError(r.tok))
         ELSE IF get_user(r.target) = {}
           THEN Finish(p, r1, HttpError(404, "User not found"))
         ELSE Finish(p, r1, UsersResponse(UserOut(CHOOSE u \in get_user(r.target) : TRUE),
                                          get_user(r.target)))
      /\ UNCHANGED <<users, products>>

----------------------------------------------------------------------------
(* The requests the clients send *)

RegisterRequests(bodies) == {Request("register", "", 0, b) : b \in bodies}

LoginRequests(ops, identifiers, passwords) ==
  {Request(op, "", 0, [username |-> i, password |-> pw]) :
     op \in ops, i \in identifiers, pw \in passwords}

UpdateUserRequests(tokens, ids, bodies) ==
  {Request("update_user", t, id, b) : t \in tokens, id \in ids, b \in bodies}

ReadUsersRequests(tokens, skips, limits) ==
  {Request("read_users", t, 0, [skip |-> sk, limit |-> li]) :
     t \in tokens, sk \in skips, li \in limits}

ReadUserRequests(tokens, ids) ==
  {Request("read_user", t, id, NoData) : t \in tokens, id \in ids}

DeleteUserRequests(tokens, ids) ==
  {Request("delete_user", t, id, NoData) : t \in tokens, id \in ids}

CreateProductRequests(tokens, bodies) ==
  {Request("create_product", t, 0, b) : t \in tokens, b \in bodies}

UpdateProductRequests(tokens, ids, bodies) ==
  {Request("update_product", t, id, b) : t \in tokens, id \in ids, b \in bodies}

DeleteProductRequests(tokens, ids) ==
  {Request("delete_product", t, id, NoData) : t \in tokens, id \in ids}

\* bodies of POST /products with these names and skus (<<>> is an absent
\* description, category or sku)
ProductBodies(names, skus) ==
  [name : names, description : {<<>>}, price : {1}, stock_quantity : {1},
   category : {<<>>}, sku : skus]

\* "AB-0001": also the generator's first candidate for a name that cleans to AB
SkuAB1 == <<"A", "B", "-", "0", "0", "0", "1">>
SkuX1 == <<"X", "1">>

----------------------------------------------------------------------------
(* Specifications *)

\* init_db.py: create_superuser and the test user of create_sample_data
SeedUsers ==
  { [id |-> 1, email |-> "admin@example.com", username |-> "admin",
     hashed_password |-> get_password_hash("AdminPass123"),
     is_active |-> "true", is_superuser |-> TRUE],
    [id |-> 2, email |-> "user@example.com", username |-> "testuser",
     hashed_password |-> get_password_hash("UserPass123"),
     is_active |-> "true", is_superuser |-> FALSE] }

\* init_db.py: the superuser and the test user; no product yet
Init ==
  /\ users = SeedUsers
  /\ products = {}
  /\ req = [p \in Procs |-> Idle]
  /\ resp = [p \in Procs |-> NoResp]

\* /auth/register and /users, two requests at a time, the superuser's token
UsersRequests ==
  RegisterRequests([email : {"new@example.com"}, username : {"newuser", "testuser"},
                    password : {"NewPass123"}])
  \cup UpdateUserRequests({"admin"}, 2..MaxUsers,
                          {[email |-> "new@example.com"], [username |-> "newuser"]})
  \cup DeleteUserRequests({"admin"}, 1..MaxUsers)

NextUsers ==
  \E p \in Procs :
    \/ \E r \in UsersRequests :
         \/ RegisterCheck(p, r)
         \/ UpdateUserCheck(p, r)
         \/ DeleteUserCheck(p, r)
    \/ RegisterCommit(p)
    \/ UpdateUserCommit(p)
    \/ DeleteUserCommit(p)

SpecUsers == Init /\ [][NextUsers]_vars

\* /products, two requests at a time
ProductsRequests ==
  CreateProductRequests({"testuser"},
                        ProductBodies({<<"a", "b">>}, {<<>>, SkuAB1}))
  \cup UpdateProductRequests({"testuser"}, 1..MaxProducts, {[price |-> 2, sku |-> SkuX1]})
  \cup DeleteProductRequests({"testuser"}, 1..MaxProducts)

NextProducts ==
  \E p \in Procs :
    \/ \E r \in ProductsRequests :
         \/ CreateProductCheck(p, r)
         \/ UpdateProductCheck(p, r)
         \/ DeleteProductCheck(p, r)
    \/ GenerateCounter(p)
    \/ GenerateUuid(p)
    \/ CreateProductCommit(p)
    \/ UpdateProductCommit(p)
    \/ DeleteProductCommit(p)

SpecProducts == Init /\ [][NextProducts]_vars

\* creations only, two requests at a time: registrations that share an
\* e-mail or a username, products with the same given sku or with names that
\* clean to the same base
CreateRequests ==
  RegisterRequests([email : {"new@example.com", "other@example.com"},
                    username : {"newuser", "other"}, password : {"NewPass123"}]
                   \ {[email |-> "other@example.com", username |-> "other",
                       password |-> "NewPass123"]})
  \cup CreateProductRequests({"testuser"},
                             ProductBodies({<<"a", "b">>, <<"A", "-", "b">>}, {<<>>, SkuX1}))

NextCreate ==
  \E p \in Procs :
    \/ \E r \in CreateRequests :
         \/ RegisterCheck(p, r)
         \/ CreateProductCheck(p, r)
    \/ RegisterCommit(p)
    \/ GenerateCounter(p)
    \/ GenerateUuid(p)
    \/ CreateProductCommit(p)

SpecCreate == Init /\ [][NextCreate]_vars

\* every endpoint that changes the store, one request at a time, sent by the
\* superuser, by the test user, by a newly registered user or with a token
\* whose subject is not stored
AllRequests ==
  RegisterRequests({[email |-> "new@example.com", username |-> "newuser",
                     password |-> "NewPass123"]})
  \cup UpdateUserRequests({"admin", "testuser"}, 2..MaxUsers, {[is_active |-> "false"]})
  \cup DeleteUserRequests({"admin", "testuser"}, 1..MaxUsers)
  \cup CreateProductRequests({"admin", "testuser"},
                             ProductBodies({<<"a", "b">>}, {<<>>, SkuX1}))
  \cup UpdateProductRequests({"admin", "testuser"}, 1..MaxProducts,
                             {[price |-> 2, sku |-> SkuAB1]})
  \cup DeleteProductRequests({"admin", "testuser"}, 1..MaxProducts)

Next ==
  \E p \in {"r1"} :
    \/ \E r \in AllRequests :
         \/ RegisterCheck(p, r)
         \/ UpdateUserCheck(p, r)
         \/ DeleteUserCheck(p, r)
         \/ CreateProductCheck(p, r)
         \/ UpdateProductCheck(p, r)
         \/ DeleteProductCheck(p, r)
    \/ RegisterCommit(p)
    \/ UpdateUserCommit(p)
    \/ DeleteUserCommit(p)
    \/ GenerateCounter(p)
    \/ GenerateUuid(p)
    \/ CreateProductCommit(p)
    \/ UpdateProductCommit(p)
    \/ DeleteProductCommit(p)

Spec == Init /\ [][Next]_vars

\* products as create_product and update_product leave them: unique ids and
\* skus, price > 0, stock_quantity >= 0, owners that are stored; <<>> is NULL
Catalog ==
  { [id |-> 1, name |-> <<"A", "b">>, description |-> <<>>, price |-> 1,
     stock_quantity |-> 2, category |-> <<"a">>, sku |-> SkuAB1,
     is_active |-> "true", owner_id |-> 1],
    [id |-> 2, name |-> <<"b", "a">>, description |-> <<"a", "b", " ", "b">>, price |-> 2,
     stock_quantity |-> 0, category |-> <<>>, sku |-> SkuX1,
     is_active |-> "true", owner_id |-> 2],
    [id |-> 3, name |-> <<"B", "B">>, description |-> <<>>, price |-> 3,
     stock_quantity |-> 1, category |-> <<"a">>, sku |-> <<"B", "_", "1">>,
     is_active |-> "true", owner_id |-> 2],
    [id |-> 4, name |-> <<"b">>, description |-> <<"A">>, price |-> 2,
     stock_quantity |-> 3, category |-> <<"B">>, sku |-> <<"B", "2">>,
     is_active |-> "false", owner_id |-> 2],
    [id |-> 5, name |-> <<"a", "a">>, description |-> <<>>, price |-> 1,
     stock_quantity |-> 1, category |-> <<>>, sku |-> <<"A", "A">>,
     is_active |-> "null", owner_id |-> 1] }

\* the filters of GET /products that a request gives
Filters ==
  { NoData, [category |-> <<"a">>], [search |-> <<"a">>], [search |-> <<"B", "_">>],
    [search |-> <<"%">>], [min_price |-> 0], [max_price |-> 0],
    [min_price |-> 2, max_price |-> 2] }

ReadProductsRequests(tokens, skips, limits) ==
  {Request("read_products", t, 0,
           [f \in DOMAIN fl \cup {"skip", "limit", "active_only"} |->
              CASE f = "skip" -> sk [] f = "limit" -> li [] f = "active_only" -> ao
                [] OTHER -> fl[f]]) :
     t \in tokens, sk \in skips, li \in limits, ao \in BOOLEAN, fl \in Filters}

ReadMyProductsRequests(tokens, skips, limits) ==
  {Request("read_my_products", t, 0, [skip |-> sk, limit |-> li]) :
     t \in tokens, sk \in skips, li \in limits}

StatisticsRequests(tokens) ==
  {Request(op, t, 0, NoData) : op \in {"statistics_overview", "statistics_admin"},
                               t \in tokens}

FullTextSearchRequests(queries, limits) ==
  {Request("full_text_search", "", 0, [query |-> q, limit |-> li]) :
     q \in queries, li \in limits}

PaginateRequests ==
  {Request("paginate", "", 0, [skip |-> sk, limit |-> li, total |-> n]) :
     sk \in 0..MaxSkip, li \in {1, 2, 3, 10, 1000}, n \in 0..MaxTotal}

\* the read-only operations, each applied once to a store of catalog products
QueryRequests ==
  ReadProductsRequests({"testuser"}, {0, 1}, {1, 3})
  \cup ReadMyProductsRequests({"admin", "testuser"}, {0, 1}, {1, 3})
  \cup StatisticsRequests({"admin", "testuser", "nobody"})
  \cup FullTextSearchRequests({ <<>>, <<" ">>, <<"a">>, <<"a", " ", "b">>, <<"A", "B">>,
                                <<"x", "x", " ", "b", "a">>, <<"%", "%">>, <<"b", "_">> },
                              {1, 3})
  \cup PaginateRequests

InitQuery ==
  /\ users = SeedUsers
  /\ products \in SUBSET Catalog
  /\ \E r \in QueryRequests :
       /\ r.op = "paginate" => products = {}
       /\ req = [p \in Procs |-> IF p = "r1" THEN r ELSE Idle]
  /\ resp = [p \in Procs |-> NoResp]

NextQuery ==
  \E p \in {"r1"} :
    \/ ReadProducts(p)
    \/ ReadMyProducts(p)
    \/ OverviewStatistics(p)
    \/ AdminStatistics(p)
    \/ FullTextSearch(p)
    \/ Paginate(p)

SpecQuery == InitQuery /\ [][NextQuery]_vars

\* registration, login and the superuser's updates of the other users, one
\* request at a time; a registration body may carry a field that UserCreate
\* does not have, and an update body may carry null
AuthRequests ==
  RegisterRequests([email : {"new@example.com", "user@example.com"},
                    username : {"newuser", "testuser"}, password : {"NewPass123"}]
                   \cup {[email |-> "new@example.com", username |-> "newuser",
                          password |-> "NewPass123", is_superuser |-> TRUE]})
  \cup UpdateUserRequests({"admin"}, 2..3,
                          { [is_active |-> "false"], [is_active |-> "true"],
                            [is_active |-> "null"], [email |-> "user@example.com"],
                            [email |-> "new@example.com"], [email |-> "null"],
                            [username |-> "testuser", is_active |-> "false"] })
  \cup LoginRequests({"login", "login_alt"},
                     {"testuser", "user@example.com", "newuser", "nobody"},
                     {"UserPass123", "NewPass123"})

NextAuth ==
  \E p \in {"r1"} :
    \/ \E r \in AuthRequests :
         \/ RegisterCheck(p, r)
         \/ UpdateUserCheck(p, r)
         \/ Login(p, r)
         \/ LoginAlt(p, r)
    \/ RegisterCommit(p)
    \/ UpdateUserCommit(p)

SpecAuth == Init /\ [][NextAuth]_vars

\* the four operations on /users and registration, one request at a time,
\* sent by the superuser, by the test user and by a newly registered user
AdminRequests ==
  RegisterRequests({[email |-> "new@example.com", username |-> "newuser",
                     password |-> "NewPass123"]})
  \cup ReadUsersRequests({"admin", "testuser", "newuser"}, {0, 1}, {1, 1000})
  \cup ReadUserRequests({"admin", "testuser", "newuser"}, 1..3)
  \cup UpdateUserRequests({"admin", "testuser", "newuser"}, 1..3,
                          { [email |-> "other@example.com"], [is_active |-> "false"],
                            [username |-> "renamed"] })
  \cup DeleteUserRequests({"admin", "testuser", "newuser"}, 1..3)

NextAdmin ==
  \E p \in {"r1"} :
    \/ \E r \in AdminRequests :
         \/ RegisterCheck(p, r)
         \/ ReadUsers(p, r)
         \/ ReadUser(p, r)
         \/ UpdateUserCheck(p, r)
         \/ DeleteUserCheck(p, r)
    \/ RegisterCommit(p)
    \/ UpdateUserCommit(p)
    \/ DeleteUserCommit(p)

SpecAdmin == Init /\ [][NextAdmin]_vars

\* create-product and update-product, one request at a time, with bodies whose
\* price and stock quantity are positive, zero, negative or null
PricesRequests ==
  CreateProductRequests({"testuser"},
                        [name : {<<"a", "b">>}, description : {<<>>}, price : {0 - 1, 0, 1},
                         stock_quantity : {0 - 1, 0}, category : {<<>>}, sku : {<<>>, SkuX1}])
  \cup UpdateProductRequests({"testuser"}, 1..MaxProducts,
                             { [price |-> 0 - 1], [price |-> 0], [price |-> 2],
                               [price |-> NullNumber], [stock_quantity |-> 0 - 1],
                               [stock_quantity |-> 3], [stock_quantity |-> NullNumber],
                               [price |-> 2, stock_quantity |-> 0 - 1] })

NextPrices ==
  \E p \in {"r1"} :
    \/ \E r \in PricesRequests :
         \/ CreateProductCheck(p, r)
         \/ UpdateProductCheck(p, r)
    \/ GenerateCounter(p)
    \/ GenerateUuid(p)
    \/ CreateProductCommit(p)
    \/ UpdateProductCommit(p)

SpecPrices == Init /\ [][NextPrices]_vars

\* the skus of the stored products the SKU generator is run against: every
\* counter sku of the base AB, the first of the base PROD, the randomized skus
\* of the base AB and one that no base name gives
StoredSkus ==
  [c \in 1..CounterLimit |-> CounterSku(<<"A", "B">>, c)]
  \o << CounterSku(<<"P", "R", "O", "D">>, 1),
        UuidSku(<<"A", "B">>, <<"A", "0", "0", "0", "0", "0", "0", "1">>),
        UuidSku(<<"A", "B">>, <<"B", "0", "0", "0", "0", "0", "0", "2">>),
        SkuX1 >>

\* the test user's product with the i-th of these skus
StoredProduct(i) ==
  [id |-> i, name |-> <<"x">>, description |-> <<>>, price |-> 1, stock_quantity |-> 1,
   category |-> <<>>, sku |-> StoredSkus[i], is_active |-> "true", owner_id |-> 2]

\* create-product without a sku, one request at a time, for names that clean
\* to AB, to nothing (PROD), to X and to eight characters
SkuRequests ==
  CreateProductRequests({"testuser"},
                        ProductBodies({ <<"a", "b">>, <<"A", "-", "b">>, <<"-">>, <<"x">>,
                                        <<"a", "b", "d", "o", "p", "r", "x", "a", "b">> },
                                      {<<>>}))

InitSku ==
  /\ users = SeedUsers
  /\ \E S \in SUBSET DOMAIN StoredSkus : products = {StoredProduct(i) : i \in S}
  /\ req = [p \in Procs |-> Idle]
  /\ resp = [p \in Procs |-> NoResp]

\* the request up to the return of generate_unique_sku
NextSku ==
  \E p \in {"r1"} :
    \/ \E r \in SkuRequests : CreateProductCheck(p, r)
    \/ GenerateCounter(p)
    \/ GenerateUuid(p)

SpecSku == InitSku /\ [][NextSku]_vars

\* the loops of the generator keep turning, and a draw that can give a sku
\* that is free eventually gives one
SpecSkuFair ==
  /\ SpecSku
  /\ \A p \in {"r1"} : WF_vars(GenerateCounter(p)) /\ WF_vars(GenerateUuid(p))

\* logins on one slot; on the other, one at a time, registrations and the
\* superuser's renamings and deletions of the other users
TokenLogins ==
  LoginRequests({"login", "login_alt"}, {"testuser", "user@example.com", "newuser"},
                {"UserPass123", "NewPass123"})

TokenRequests ==
  RegisterRequests([email : {"new@example.com"}, username : {"newuser", "testuser"},
                    password : {"NewPass123"}])
  \cup UpdateUserRequests({"admin"}, 2..3, {[username |-> "renamed"], [username |-> "testuser"]})
  \cup DeleteUserRequests({"admin"}, 2..3)

NextToken ==
  \/ \E p \in {"r1"} : \E r \in TokenLogins : Login(p, r) \/ LoginAlt(p, r)
  \/ \E p \in {"r2"} :
       \/ \E r \in TokenRequests :
            \/ RegisterCheck(p, r)
            \/ UpdateUserCheck(p, r)
            \/ DeleteUserCheck(p, r)
       \/ RegisterCommit(p)
       \/ UpdateUserCommit(p)
       \/ DeleteUserCommit(p)

SpecToken == Init /\ [][NextToken]_vars

\* the test user's creations and the superuser's deletion of the test user,
\* two requests at a time
OwnersRequests ==
  CreateProductRequests({"testuser"}, ProductBodies({<<"a", "b">>}, {<<>>, SkuX1}))
  \cup DeleteUserRequests({"admin"}, {2})
  \cup DeleteProductRequests({"admin"}, 1..MaxProducts)

NextOwners ==
  \E p \in Procs :
    \/ \E r \in OwnersRequests :
         \/ CreateProductCheck(p, r)
         \/ DeleteUserCheck(p, r)
         \/ DeleteProductCheck(p, r)
    \/ GenerateCounter(p)
    \/ GenerateUuid(p)
    \/ CreateProductCommit(p)
    \/ DeleteUserCommit(p)
    \/ DeleteProductCommit(p)

SpecOwners == Init /\ [][NextOwners]_vars

\* a store with a second superuser: is_superuser is a column that no endpoint
\* writes, so such a row comes from outside the API, as the first one does
TwoSuperusers ==
  SeedUsers \cup { [id |-> 3, email |-> "root@example.com", username |-> "root",
                    hashed_password |-> get_password_hash("RootPass123"),
                    is_active |-> "true", is_superuser |-> TRUE] }

InitSuperusers ==
  /\ users = TwoSuperusers
  /\ products = {}
  /\ req = [p \in Procs |-> Idle]
  /\ resp = [p \in Procs |-> NoResp]

\* DELETE /users/{id} sent by either superuser, two requests at a time
SuperusersRequests == DeleteUserRequests({"admin", "root"}, 1..3)

NextSuperusers ==
  \E p \in Procs :
    \/ \E r \in SuperusersRequests : DeleteUserCheck(p, r)
    \/ DeleteUserCommit(p)

SpecSuperusers == InitSuperusers /\ [][NextSuperusers]_vars

\* every endpoint, one request at a time: the requests that change the store
\* and, for each operation that only reads, a few requests
FrameRequests ==
  AllRequests
  \cup UpdateUserRequests({"admin"}, {2}, {[email |-> "admin@example.com"]})
  \cup LoginRequests({"login", "login_alt"}, {"testuser"}, {"UserPass123", "NewPass123"})
  \cup ReadUsersRequests({"admin", "testuser"}, {0}, {1000})
  \cup ReadUserRequests({"admin", "testuser"}, {2, 3})
  \cup {Request("read_products", "testuser", 0,
                [active_only |-> TRUE, search |-> <<"a">>, skip |-> 0, limit |-> 1])}
  \cup ReadMyProductsRequests({"testuser"}, {0}, {1})
  \cup StatisticsRequests({"testuser"})
  \cup {Request("read_product", "testuser", id, NoData) : id \in 1..MaxProducts}
  \cup {Request("get_categories", "testuser", 0, NoData)}
  \cup FullTextSearchRequests({<<"a", "b">>}, {1})

NextFrame ==
  \E p \in {"r1"} :
    \/ \E r \in FrameRequests :
         \/ RegisterCheck(p, r)
         \/ Login(p, r)
         \/ LoginAlt(p, r)
         \/ ReadUsers(p, r)
         \/ ReadUser(p, r)
         \/ UpdateUserCheck(p, r)
         \/ DeleteUserCheck(p, r)
         \/ CreateProductCheck(p, r)
         \/ UpdateProductCheck(p, r)
         \/ DeleteProductCheck(p, r)
         \/ Receive(p, r)
    \/ RegisterCommit(p)
    \/ UpdateUserCommit(p)
    \/ DeleteUserCommit(p)
    \/ GenerateCounter(p)
    \/ GenerateUuid(p)
    \/ CreateProductCommit(p)
    \/ UpdateProductCommit(p)
    \/ DeleteProductCommit(p)
    \/ ReadProducts(p)
    \/ ReadMyProducts(p)
    \/ ReadProduct(p)
    \/ GetCategories(p)
    \/ OverviewStatistics(p)
    \/ AdminStatistics(p)
    \/ FullTextSearch(p)

SpecFrame == Init /\ [][NextFrame]_vars

----------------------------------------------------------------------------
(* Claims *)

Done(p, op) == req[p].op = op /\ req[p].pc = "done"

\* C1: in every state reached by interleaved register, update-user and
\* delete-user requests, no two stored users share an e-mail and no two share
\* a username (one user row per id)
C1_UsersUnique ==
  \A u, v \in users :
    u # v => u.id # v.id /\ u.email # v.email /\ u.username # v.username

\* a registration and an update both went for the same e-mail, the update took
\* it and the registration was refused at its commit
C1_Witness ==
  /\ \E p \in Procs : Done(p, "register") /\ resp[p].exc = "IntegrityError"
  /\ \E p \in Procs : Done(p, "update_user") /\ resp[p].status = 200
  /\ \E u \in users : u.id = 2 /\ u.email = "new@example.com"

\* the key two creation requests share, if any
SameKey(r1, r2) ==
  \/ /\ r1.op = "register" /\ r2.op = "register"
     /\ \/ r1.data.email = r2.data.email
        \/ r1.data.username = r2.data.username
  \/ /\ r1.op = "create_product" /\ r2.op = "create_product"
     /\ r1.data.sku # <<>> /\ r1.data.sku = r2.data.sku

\* C2: of two creation requests with the same key (e-mail, username or given
\* sku) at most one is answered 201, and the store holds at most one record
\* with that key
C2_AtMostOneSuccess ==
  /\ \A p, q \in Procs :
       p # q /\ req[p].pc = "done" /\ req[q].pc = "done" /\ SameKey(req[p], req[q])
         => ~(resp[p].status = 201 /\ resp[q].status = 201)
  /\ \A u, v \in users : u # v => u.email # v.email /\ u.username # v.username
  /\ \A x, y \in products : x # y => x.sku # y.sku

\* two registrations with the same e-mail both passed the look-ups; one was
\* answered 201 and the other was refused at its commit
C2_Witness ==
  \E p, q \in Procs :
    /\ Done(p, "register") /\ Done(q, "register")
    /\ req[p].data.email = req[q].data.email
    /\ resp[p].status = 201 /\ resp[q].exc = "IntegrityError"

\* C3: a creation request that passed the look-ups and lost at the storage
\* uniqueness constraint is answered 400 with a duplicate message
C3_LoserGetsDuplicate ==
  \A p \in Procs :
    /\ req[p].pc = "done" /\ req[p].op \in {"register", "create_product"}
    /\ resp[p].exc = "IntegrityError"
    => /\ resp[p].status = 400
       /\ resp[p].detail \in {"Email already registered", "Username already taken",
                              "SKU already exists"}

\* the sku generate_unique_sku returned to the request, if it has returned
Generated(r) == r.op = "create_product" /\ r.data.sku = <<>> /\ r.sku # <<>>

\* C4: the calls of the SKU generator return pairwise distinct SKUs
C4_DistinctGenerated ==
  \A p, q \in Procs :
    p # q /\ Generated(req[p]) /\ Generated(req[q]) => req[p].sku # req[q].sku

\* C5: no two stored products have the same SKU
C5_SkuUnique == \A x, y \in products : x # y => x.id # y.id /\ x.sku # y.sku

\* a product with a given sku and one with a generated sku are stored, and a
\* creation was refused at its commit because its sku had been taken
C5_Witness ==
  /\ \E p \in Procs : Done(p, "create_product") /\ resp[p].exc = "IntegrityError"
  /\ Cardinality(products) > 1
  /\ \E x \in products : x.sku = SkuAB1

\* a request arrives on slot p and the handler's checks run in this step
Arrives(p) == Free(p) /\ <<req'[p], resp'[p]>> # <<req[p], resp[p]>>

\* the stored account a token names, when it is active
Caller(tok) == {u \in users : u.username = tok /\ u.is_active = "true"}

ProductOps == {"update_product", "delete_product"}
UserOps == {"update_user", "delete_user"}

\* C6: for an active acting user and an existing product, update-product and
\* delete-product take effect if and only if the acting user's id is the
\* product's owner_id or the acting user is a superuser; otherwise the request
\* is answered 403 and the products are unchanged
C6_OwnerOrSuperuser ==
  [][ \A p \in {"r1"} :
        LET r == req'[p]
            q == req[p]
        IN  /\ Arrives(p) /\ r.op \in ProductOps
               => \A u \in Caller(r.tok) : \A x \in products :
                    x.id = r.target =>
                      IF u.id = x.owner_id \/ u.is_superuser
                        THEN r.pc = "commit"
                        ELSE /\ r.pc = "done" /\ resp'[p].status = 403
                             /\ products' = products
            /\ q.pc = "commit" /\ q.op = "update_product"
               => /\ resp'[p].status = 200
                  /\ \E x \in products : \E y \in products' :
                       /\ x.id = q.target /\ y.id = q.target
                       /\ \A f \in DOMAIN q.data \cap {"name", "price", "is_active"} :
                            y[f] = q.data[f]
                       /\ products' \ {y} = products \ {x}
            /\ q.pc = "commit" /\ q.op = "delete_product"
               => /\ resp'[p].status = 200
                  /\ products' = {x \in products : x.id # q.target}
                  /\ products' # products
            /\ (\E x \in products : x \notin products')
               => /\ q.pc = "commit" /\ q.op \in ProductOps
                  /\ \E u \in Caller(q.tok) : \E x \in products :
                       x.id = q.target /\ (u.id = x.owner_id \/ u.is_superuser)
    ]_vars

\* the superuser's product has been updated, and the test user's request to
\* delete it was answered 403
C6_Witness ==
  /\ Done("r1", "delete_product") /\ req["r1"].tok = "testuser"
  /\ resp["r1"].status = 403
  /\ \E x \in products : x.id = req["r1"].target /\ x.owner_id = 1 /\ x.price = 2

\* C7: on PUT and DELETE of /products/{id} and of /users/{id}, a request by an
\* authenticated caller that targets a non-existent id is answered 404, and
\* 403 is answered only when the target exists
C7_ExistenceFirst ==
  [][ \A p \in {"r1"} :
        LET r == req'[p]
            exists == IF r.op \in ProductOps
                        THEN \E x \in products : x.id = r.target
                        ELSE \E u \in users : u.id = r.target
        IN  Arrives(p) /\ r.op \in ProductOps \cup UserOps /\ Caller(r.tok) # {}
              => /\ ~exists => resp'[p].status = 404
                 /\ resp'[p].status = 403 => exists
    ]_vars

\* C7, as the code has it: on /products/{id} a request by an authenticated
\* caller for a non-existent id is answered 404 and 403 is answered only when
\* the product exists; on /users/{id} a caller who is not a superuser is
\* answered 403 whether or not the target exists, and a superuser who targets
\* a non-existent id is answered 404
C7_ExistenceFirstProducts ==
  [][ \A p \in {"r1"} :
        LET r == req'[p]
        IN  /\ Arrives(p) /\ r.op \in ProductOps /\ Caller(r.tok) # {}
               => /\ (~\E x \in products : x.id = r.target) => resp'[p].status = 404
                  /\ resp'[p].status = 403 => \E x \in products : x.id = r.target
            /\ Arrives(p) /\ r.op \in UserOps
               => \A u \in Caller(r.tok) :
                    IF u.is_superuser
                      THEN (~\E v \in users : v.id = r.target) => resp'[p].status = 404
                      ELSE resp'[p].status = 403
    ]_vars

\* the test user asked to delete a user id that is not stored and was
\* answered 403
C7_Witness ==
  /\ Done("r1", "delete_user") /\ req["r1"].tok = "testuser"
  /\ Caller("testuser") # {}
  /\ ~\E v \in users : v.id = req["r1"].target
  /\ resp["r1"].status = 403

\* C8: a delete-user request by a superuser whose target is the superuser's
\* own id is answered 400 and the stored users are the same before and after
C8_NoSelfDelete ==
  [][ \A p \in Procs :
        LET r == req'[p]
        IN  /\ Arrives(p) /\ r.op = "delete_user"
               => \A u \in Caller(r.tok) :
                    u.is_superuser /\ r.target = u.id
                      => /\ r.pc = "done"
                         /\ resp'[p] = HttpError(400, "Cannot delete your own account")
                         /\ users' = users
            /\ req[p].pc = "commit" /\ req[p].op = "delete_user"
               => \A u \in users : u.username = req[p].tok => u.id # req[p].target
    ]_vars

\* the superuser asked to delete the superuser's own account, was answered 400
\* and is still stored
C8_Witness ==
  \E p \in Procs :
    /\ Done(p, "delete_user") /\ req[p].tok = "admin" /\ req[p].target = 1
    /\ resp[p].status = 400
    /\ \E u \in users : u.id = 1 /\ u.username = "admin"

\* C9: a stored product keeps its SKU in every step from its creation to its
\* deletion, whatever the payload of an update-product request carries
C9_SkuImmutable ==
  [][ \A x \in products : \A y \in products' : x.id = y.id => x.sku = y.sku ]_vars

\* an update whose payload carries a sku was answered 200: the price changed
\* and the sku is not the payload's
C9_Witness ==
  \E p \in Procs :
    /\ Done(p, "update_product") /\ "sku" \in DOMAIN req[p].data
    /\ resp[p].status = 200
    /\ \E x \in products :
         x.id = req[p].target /\ x.price = req[p].data.price /\ x.sku # req[p].data.sku

\* C10: create-product stores the creating user's id as owner_id, and no step
\* changes the owner_id of a stored product
C10_OwnerFixed ==
  [][ /\ \A y \in products' :
           (~\E x \in products : x.id = y.id)
             => \E p \in {"r1"} :
                  /\ req[p].op = "create_product" /\ req[p].pc = "commit"
                  /\ \E u \in users : u.username = req[p].tok /\ u.id = y.owner_id
      /\ \A x \in products : \A y \in products' : x.id = y.id => x.owner_id = y.owner_id
    ]_vars

\* the superuser updated the test user's product, which is still the test
\* user's
C10_Witness ==
  /\ Done("r1", "update_product") /\ req["r1"].tok = "admin"
  /\ resp["r1"].status = 200
  /\ \E x \in products : x.id = req["r1"].target /\ x.owner_id = 2 /\ x.price = 2

LoginOps == {"login", "login_alt"}

\* the account a login identifier names: the one with that username or,
\* failing that, the one with that e-mail
Account(identifier) ==
  IF \E u \in users : u.username = identifier
    THEN {u \in users : u.username = identifier}
    ELSE {u \in users : u.email = identifier}

\* the response carries a token
TokenIssued(response) == response.status = 200 /\ "body" \in DOMAIN response

\* C11: login (on either endpoint) issues a token if and only if the password
\* is the password of the account the identifier names and that account is
\* not inactive; with a wrong password or an identifier that names no account
\* it is answered 401 without a token
C11_TokenIffPassword ==
  \A p \in {"r1"} :
    req[p].pc = "done" /\ req[p].op \in LoginOps
      => LET d == req[p].data
             verified == {u \in Account(d.username) : u.hashed_password.hash_of = d.password}
         IN  /\ TokenIssued(resp[p]) <=> \E u \in verified : u.is_active # "false"
             /\ verified = {} => resp[p].status = 401 /\ ~TokenIssued(resp[p])

\* C12: login with the correct password of an account whose active flag is
\* false, by username or by e-mail and on either endpoint, is answered 400
\* "Inactive user" without a token
C12_InactiveRefused ==
  \A p \in {"r1"} :
    req[p].pc = "done" /\ req[p].op \in LoginOps
      => \A u \in users :
           /\ req[p].data.username \in {u.username, u.email}
           /\ u.hashed_password.hash_of = req[p].data.password
           /\ u.is_active = "false"
           => resp[p] = HttpError(400, "Inactive user")

\* the test user was set inactive and then logged in on /auth/login-alt by
\* e-mail with the right password
C12_Witness ==
  /\ Done("r1", "login_alt")
  /\ req["r1"].data = [username |-> "user@example.com", password |-> "UserPass123"]
  /\ \E u \in users : u.email = "user@example.com" /\ u.is_active = "false"
  /\ resp["r1"].status = 400

\* C13: every user that registration adds has the superuser flag false
C13_RegisteredNotSuperuser ==
  [][ \A y \in users' : (~\E x \in users : x.id = y.id) => y.is_superuser = FALSE ]_vars

\* a registration whose body carried is_superuser: true was answered 201 and
\* the user it added is not a superuser
C13_Witness ==
  /\ Done("r1", "register") /\ resp["r1"].status = 201
  /\ "is_superuser" \in DOMAIN req["r1"].data /\ req["r1"].data.is_superuser
  /\ \E u \in users : u.username = req["r1"].data.username /\ ~u.is_superuser

\* C19: update-user on a stored user changes exactly the fields of the
\* payload; a payload e-mail or username that a different user holds is
\* answered 400 and changes nothing, and the target's own current e-mail or
\* username is no conflict
C19_ExactlySupplied ==
  [][ \A p \in {"r1"} :
        LET r == req'[p]
            q == req[p]
            d == r.data
        IN  /\ /\ Arrives(p) /\ r.op = "update_user"
               /\ \E u \in Caller(r.tok) : u.is_superuser
               /\ \E u \in users : u.id = r.target
               => IF "email" \in DOMAIN d
                     /\ \E u \in users : u.email = d.email /\ u.id # r.target
                    THEN /\ resp'[p] = HttpError(400, "Email already registered")
                         /\ r.pc = "done" /\ users' = users
                  ELSE IF "username" \in DOMAIN d
                          /\ \E u \in users : u.username = d.username /\ u.id # r.target
                    THEN /\ resp'[p] = HttpError(400, "Username already taken")
                         /\ r.pc = "done" /\ users' = users
                  ELSE r.pc = "commit" /\ users' = users
            /\ q.pc = "commit" /\ q.op = "update_user"
               => \E x \in users : \E y \in users' :
                    /\ x.id = q.target /\ y.id = q.target
                    /\ users' \ {y} = users \ {x}
                    /\ \A f \in DOMAIN x :
                         y[f] = IF f \in DOMAIN q.data THEN q.data[f] ELSE x[f]
    ]_vars

\* C20: a registration whose e-mail a stored user has is answered 400 "Email
\* already registered"; one with a fresh e-mail whose username a stored user
\* has is answered 400 "Username already taken"; neither adds a user; one with
\* a fresh e-mail and a fresh username is answered 201 and adds exactly one
\* user, with that e-mail and username
C20_RegisterDuplicates ==
  [][ \A p \in {"r1"} :
        LET r == req'[p]
            q == req[p]
        IN  /\ Arrives(p) /\ r.op = "register"
               => /\ users' = users
                  /\ IF \E u \in users : u.email = r.data.email
                       THEN /\ resp'[p] = HttpError(400, "Email already registered")
                            /\ r.pc = "done"
                     ELSE IF \E u \in users : u.username = r.data.username
                       THEN /\ resp'[p] = HttpError(400, "Username already taken")
                            /\ r.pc = "done"
                     ELSE r.pc = "commit"
            /\ q.pc = "commit" /\ q.op = "register"
               => /\ resp'[p].status = 201
                  /\ \E y \in users' :
                       /\ y \notin users /\ users' = users \cup {y}
                       /\ y.email = q.data.email /\ y.username = q.data.username
    ]_vars

\* a registration with an e-mail that no stored user has and the username of
\* a stored user was answered "Username already taken" and added no user
C20_Witness ==
  /\ Done("r1", "register")
  /\ resp["r1"] = HttpError(400, "Username already taken")
  /\ ~\E u \in users : u.email = req["r1"].data.email
  /\ \E u \in users : u.username = req["r1"].data.username
  /\ Cardinality(users) = 2

\* the text t is a case-insensitive substring of s
Contains(s, t) ==
  \E i \in 1..(Len(s) - Len(t) + 1) : SubSeq(Lower(s), i, i + Len(t) - 1) = Lower(t)

Least(a, b) == IF a < b THEN a ELSE b

\* C14: GET /products and GET /products/my-products report as total the number
\* of all stored records that match the request's filters, whatever skip and
\* limit are
C14_TotalIsCount ==
  \A p \in {"r1"} :
    /\ Done(p, "read_products") /\ resp[p].status = 200
       => resp[p].body.total
            = Cardinality({pr \in products : ProductMatches(pr, req[p].data)})
    /\ Done(p, "read_my_products") /\ resp[p].status = 200
       => resp[p].body.total
            = Cardinality({pr \in products : pr.owner_id = req[p].uid})

\* C15: a listing response has page = floor(skip / limit) + 1 and
\* pages = ceil(total / limit); total 25 with limit 10 gives pages 3, skip 20
\* with limit 10 gives page 3, total 0 gives pages 0 and skip 0 gives page 1
C15_PageArithmetic ==
  \A p \in {"r1"} :
    /\ req[p].pc = "done" /\ req[p].op \in {"paginate", "read_products", "read_my_products"}
    /\ resp[p].status = 200
    => LET b == resp[p].body
           skip == req[p].data.skip
           limit == req[p].data.limit
       IN  /\ (b.page - 1) * limit <= skip /\ skip < b.page * limit
           /\ (b.pages - 1) * limit < b.total /\ b.total <= b.pages * limit
           /\ b.total = 25 /\ limit = 10 => b.pages = 3
           /\ skip = 20 /\ limit = 10 => b.page = 3
           /\ b.total = 0 => b.pages = 0
           /\ skip = 0 => b.page = 1

\* total 25, limit 10 and skip 20 were paginated: pages 3 and page 3
C15_Witness ==
  /\ Done("r1", "paginate")
  /\ req["r1"].data = [skip |-> 20, limit |-> 10, total |-> 25]
  /\ resp["r1"].body.pages = 3 /\ resp["r1"].body.page = 3

\* C16: every item GET /products returns satisfies all the filters given
\* (active when active_only; category equal; min_price <= price <= max_price;
\* the search text a case-insensitive substring of name, description or sku),
\* and min(limit, max(0, M - skip)) items are returned, M being the number of
\* stored products that satisfy the filters
C16_ItemsSatisfyFilters ==
  \A p \in {"r1"} :
    Done(p, "read_products") /\ resp[p].status = 200
      => LET q == req[p].data
             items == resp[p].body.items
             Sat(pr) ==
               /\ q.active_only => pr.is_active = "true"
               /\ "category" \in DOMAIN q => pr.category = q.category
               /\ "search" \in DOMAIN q
                    => \/ Contains(pr.name, q.search)
                       \/ Contains(pr.description, q.search)
                       \/ Contains(pr.sku, q.search)
               /\ "min_price" \in DOMAIN q => q.min_price <= pr.price
               /\ "max_price" \in DOMAIN q => pr.price <= q.max_price
             M == Cardinality({pr \in products : Sat(pr)})
         IN  /\ \A i \in DOMAIN items : Sat(items[i])
             /\ Len(items) = Least(q.limit, IF M > q.skip THEN M - q.skip ELSE 0)

\* C17: full-text search returns only active records of which some
\* whitespace-delimited query token of length >= 2 is a case-insensitive
\* substring of name, description, category or sku; an empty query or one
\* whose tokens are all shorter than 2 returns the empty result
C17_SearchOnlySubstrings ==
  \A p \in {"r1"} :
    Done(p, "full_text_search")
      => LET tokens == Split(req[p].data.query, <<>>)
             items == resp[p].body.items
         IN  /\ resp[p].status = 200
             /\ \A i \in DOMAIN items :
                  /\ items[i].is_active = "true"
                  /\ \E j \in DOMAIN tokens :
                       /\ Len(tokens[j]) >= 2
                       /\ \/ Contains(items[i].name, tokens[j])
                          \/ Contains(items[i].description, tokens[j])
                          \/ Contains(items[i].category, tokens[j])
                          \/ Contains(items[i].sku, tokens[j])
             /\ (\A j \in DOMAIN tokens : Len(tokens[j]) < 2) => items = <<>>

\* price * stock_quantity summed over the rows of S with ids 1..n
RECURSIVE ValueUpTo(_, _)
ValueUpTo(S, n) ==
  IF n = 0 THEN 0
  ELSE ValueUpTo(S, n - 1)
       + (IF \E x \in S : x.id = n
            THEN LET x == CHOOSE x \in S : x.id = n IN x.price * x.stock_quantity
            ELSE 0)

\* C18: the statistics of all products (admin) or of the caller's products
\* (overview) have total = number of products in the set, active = number of
\* those whose active flag is true, inactive = total - active and total value
\* = sum of price * stock_quantity, 0 for the empty set
C18_Statistics ==
  \A p \in {"r1"} :
    /\ req[p].pc = "done" /\ req[p].op \in {"statistics_overview", "statistics_admin"}
    /\ resp[p].status = 200
    => LET b == resp[p].body
           set == IF req[p].op = "statistics_admin" THEN products
                  ELSE {pr \in products :
                          \E u \in users : u.username = req[p].tok /\ u.id = pr.owner_id}
       IN  /\ b.total_products = Cardinality(set)
           /\ b.active_products = Cardinality({pr \in set : pr.is_active = "true"})
           /\ b.inactive_products = b.total_products - b.active_products
           /\ b.total_value = ValueUpTo(set, Cardinality(Catalog))
           /\ set = {} => b.total_value = 0

\* the whole catalog is stored and the test user asked for the overview: three
\* products of which two are active, worth 0 + 3 + 6, the superuser's not counted
C18_Witness ==
  /\ Done("r1", "statistics_overview") /\ req["r1"].tok = "testuser"
  /\ products = Catalog
  /\ resp["r1"].status = 200
  /\ resp["r1"].body = [total_products |-> 3, active_products |-> 2,
                        inactive_products |-> 1, total_value |-> 9]

\* C21: create-product with a given sku that a stored product has is answered
\* 400 "SKU already exists" and adds no product; with a given sku that no
\* stored product has it stores one product under exactly that sku
C21_ExplicitSku ==
  [][\A p \in {"r1"} :
       /\ Arrives(p) /\ req'[p].op = "create_product" /\ req'[p].data.sku # <<>>
          /\ Caller(req'[p].tok) # {}
          => IF \E pr \in products : pr.sku = req'[p].data.sku
               THEN /\ req'[p].pc = "done"
                    /\ resp'[p] = HttpError(400, "SKU already exists")
                    /\ products' = products
               ELSE req'[p].pc = "commit" /\ products' = products
       /\ req[p].op = "create_product" /\ req[p].pc = "commit" /\ req[p].data.sku # <<>>
          /\ req'[p].pc = "done"
          => /\ resp'[p].status = 201
             /\ \A pr \in products : pr.sku # req[p].data.sku
             /\ \E row \in products' :
                  /\ row.sku = req[p].data.sku
                  /\ row \notin products
                  /\ products' = products \cup {row}
    ]_vars

\* a product is stored under the given sku X1, and a second creation with
\* that sku was answered 400 and added nothing
C21_Witness ==
  /\ Done("r1", "create_product") /\ req["r1"].data.sku = SkuX1
  /\ resp["r1"] = HttpError(400, "SKU already exists")
  /\ Cardinality({pr \in products : pr.sku = SkuX1}) = 1

UsersOps == {"read_users", "read_user", "update_user", "delete_user"}

\* C22: a request to list, read, update or delete users whose sender is stored,
\* active and not a superuser is answered 403, whatever its target; sent by any
\* stored user who is not a superuser it is refused at once and leaves the
\* set of users and every user's fields unchanged
C22_UsersSuperuserOnly ==
  [][\A p \in {"r1"} :
       /\ Arrives(p) /\ req'[p].op \in UsersOps
       /\ \E u \in users : u.username = req'[p].tok /\ ~u.is_superuser
       => /\ req'[p].pc = "done"
          /\ users' = users
          /\ resp'[p].status \in {400, 403}
          /\ Caller(req'[p].tok) # {}
               => resp'[p] = HttpError(403, "Not enough permissions")
    ]_vars

\* the newly registered user asked to delete the test user and was answered
\* 403; all three users are stored
C22_Witness ==
  /\ Done("r1", "delete_user") /\ req["r1"].tok = "newuser" /\ req["r1"].target = 2
  /\ resp["r1"] = HttpError(403, "Not enough permissions")
  /\ Cardinality(users) = 3

\* the body asks for a price that is not positive or a stock quantity that is
\* negative
BadNumbers(data) ==
  \/ "price" \in DOMAIN data /\ data.price # NullNumber /\ data.price <= 0
  \/ "stock_quantity" \in DOMAIN data /\ data.stock_quantity # NullNumber
     /\ data.stock_quantity < 0

\* C23: in every state reached through create-product and update-product every
\* stored product has price > 0 and stock quantity >= 0, and a request whose
\* body has a price <= 0 or a stock quantity < 0 is refused (422) and changes
\* nothing
C23_PricePositive ==
  /\ [](\A pr \in products : pr.price > 0 /\ pr.stock_quantity >= 0)
  /\ [][\A p \in {"r1"} :
          /\ Arrives(p) /\ req'[p].op \in {"create_product", "update_product"}
          /\ BadNumbers(req'[p].data) /\ Caller(req'[p].tok) # {}
          => /\ req'[p].pc = "done"
             /\ resp'[p] = ValidationError
             /\ products' = products
       ]_vars

\* the price of a stored product was updated to 2, and then an update to
\* price 0 was answered 422
C23_Witness ==
  /\ Done("r1", "update_product") /\ req["r1"].data = [price |-> 0]
  /\ resp["r1"] = ValidationError
  /\ \E pr \in products : pr.id = req["r1"].target /\ pr.price = 2 /\ pr.stock_quantity = 3

\* generate_unique_sku returns to the request of slot p in this step
Returns(p) ==
  /\ req[p].op = "create_product" /\ req[p].pc \in {"gen", "uuid"}
  /\ req'[p].pc = "commit"

\* C24: called with a base name that cleans to C, the SKU generator returns
\* C-NNNN for the smallest counter NNNN in 1..CounterLimit whose sku no stored
\* product has; what it returns is the sku of no stored product; and it
\* returns a randomized sku only when every counter sku of C is taken
C24_SmallestFreeCounter ==
  [][\A p \in {"r1"} :
       Returns(p)
         => LET C == CleanName(req'[p].data.name)
                sku == req'[p].sku
                Candidate(c) == C \o <<"-">> \o Fmt04(c)
                free == {c \in 1..CounterLimit : \A pr \in products : pr.sku # Candidate(c)}
            IN  /\ \A pr \in products : pr.sku # sku
                /\ free # {} => sku = Candidate(SetMax({c \in free : \A d \in free : c <= d}))
                /\ free = {} => \E part \in UuidParts : sku = C \o <<"-">> \o part
    ]_vars

\* AB-0001 is stored, and the generator returned AB-0002 for a name that
\* cleans to AB
C24_Witness ==
  /\ req["r1"].op = "create_product" /\ req["r1"].pc = "commit"
  /\ req["r1"].data.sku = <<>> /\ req["r1"].clean = <<"A", "B">>
  /\ req["r1"].sku = <<"A", "B", "-", "0", "0", "0", "2">>
  /\ \E pr \in products : pr.sku = SkuAB1

\* C25: every call of the SKU generator returns, whatever the store holds, also
\* when every counter sku of the cleaned name is taken and the randomized
\* loop is entered
C25_GeneratorTerminates ==
  \A p \in {"r1"} :
    (req[p].op = "create_product" /\ req[p].pc \in {"gen", "uuid"})
      ~> (req[p].pc = "commit")

\* C26: the token a login issued to a user resolves, as long as the response
\* stands, to that user or to no user, whatever was registered, renamed or
\* deleted since
C26_TokenResolvesToOwner ==
  \A p \in {"r1"} :
    req[p].pc = "done" /\ req[p].op \in LoginOps /\ TokenIssued(resp[p])
      => \A v \in get_user_by_username(resp[p].body.access_token.sub) : v.id = req[p].uid

\* C27: POST /auth/login and POST /auth/login-alt answer the same identifier
\* and password alike in every store: what either endpoint answered is what
\* the other one answers in the store the request was served in
C27_LoginsAgree ==
  \A p \in {"r1"} :
    req[p].pc = "done" /\ req[p].op \in LoginOps
      => LET user == LoginUser(req[p].data.username, req[p].data.password)
         IN  /\ resp[p] = LoginResponse(user, \E u \in user : LoginInactive(u))
             /\ resp[p] = LoginResponse(user, \E u \in user : LoginAltInactive(u))

\* C28: in every state the owner_id of every stored product is the id of a
\* stored user
C28_OwnerStored == \A pr \in products : \E u \in users : u.id = pr.owner_id

ReadOps ==
  {"login", "login_alt", "read_users", "read_user", "read_products", "read_my_products",
   "read_product", "get_categories", "statistics_overview", "statistics_admin",
   "full_text_search"}

\* C30: a step of a request that only reads, and the step in which a request
\* is answered with an error outcome (400, 401, 403, 404), leave users and
\* products as they are; a request that changes the store is answered so in
\* the step it arrives in, so that none of its steps has changed anything
C30_ErrorsAndReadsChangeNothing ==
  [][\A p \in {"r1"} :
       /\ <<req'[p], resp'[p]>> # <<req[p], resp[p]>>
       /\ \/ req'[p].op \in ReadOps
          \/ req'[p].pc = "done" /\ resp'[p].status \in {400, 401, 403, 404}
       => /\ users' = users /\ products' = products
          /\ req'[p].op \notin ReadOps => Free(p)
    ]_vars

\* the test user asked to delete a product of the superuser and was answered
\* 403; the product is stored
C30_Witness ==
  /\ Done("r1", "delete_product") /\ req["r1"].tok = "testuser"
  /\ resp["r1"].status = 403
  /\ \E pr \in products : pr.id = req["r1"].target /\ pr.owner_id = 1

====
